---- MODULE Spec2Model ----
(***************************************************************************)
(* A model of transcode.py: the cut planning of Transcoder.split() and     *)
(* Transcoder._extract(), the caption correction of Subtitles.adjust(),    *)
(* the choice of streams of Transcoder._find_streams() and _find_demux(),  *)
(* the cutlist of MythSource._cut_list(), Transcoder.clean_split() and the *)
(* program from t.split() to t.remux().                                    *)
(*                                                                         *)
(* Times are Python floats holding seconds.  The model counts time in      *)
(* ticks of 1/10000 s, fine enough to hold a cut point that is not a whole *)
(* millisecond (frame / 29.97) and every fraction of up to four digits.    *)
(***************************************************************************)
EXTENDS Integers, Sequences, FiniteSets, TLC

VARIABLES
    \* ---- the run's inputs --------------------------------------------
    cutlist,        \* self.source.cutlist: sequence of <<start, end>>
    duration,       \* self.source.duration
    clip_thresh,    \* self.opts.clip_thresh
    \* ---- Transcoder.split() ------------------------------------------
    pc,             \* where split() is: "split", "split_done", "failed"
    cut_i,          \* index of the next cut the for loop of split() takes
    pos,            \* local pos of split()
    elapsed,        \* local elapsed of split()
    seg,            \* self.seg
    chapters,       \* the calls self.chapters.add(pos, seg), in order
    extracted,      \* the clips ffmpeg has extracted, in order
    marks,          \* Subtitles.marks
    \* ---- Subtitles.adjust() ------------------------------------------
    srt,            \* the lines of the file self.srt
    apc,            \* where adjust() is: "idle", "loop", "returned", "written"
    line_i,         \* index of the next line the for loop of adjust() reads
    delay,          \* local delay of adjust()
    curr,           \* local curr of adjust()
    newsubs,        \* local newsubs of adjust(), as a sequence of lines
    corrected,      \* per timing line read: the values adjust() computed
    \* ---- runs of split() in one process -------------------------------
    run,            \* the number of the run of split(): 1 or 2
    first,          \* what the first run extracted, added and marked
    \* ---- Transcoder._find_streams() and _find_demux() -----------------
    probe,          \* the stream lines `ffmpeg -i` prints for the joined file
    language,       \* self.opts.language
    log,            \* the lines of the Project-X log
    spc,            \* where _find_demux() is
    probe_i,        \* index of the next line the loop of _find_streams() reads
    fs,             \* the locals vstreams and astreams of _find_streams()
    vstreams,       \* vstreams of _find_demux(): what _find_streams() returned
    astreams,       \* astreams of _find_demux()
    log_i,          \* index of the next line the loop of _find_demux() reads
    fd,             \* the counters of _find_demux(): found, targ, curr
    _demux_v,       \* self._demux_v
    _demux_a,       \* self._demux_a
    \* ---- the caption file and the temporary clips ----------------------
    enabled,        \* self.subtitles.enabled
    srt_there,      \* whether the file self.srt exists
    _split,         \* Transcoder._split
    files,          \* the names of the clip files that exist
    \* ---- the program from t.split() to t.remux() -----------------------
    main,           \* where the program is
    calls,          \* the methods called so far, in order
    cmds,           \* the commands join() and the later steps ran, with
                    \* their return codes
    demux_files,    \* the demuxed stream files that exist
    \* ---- MythSource._cut_list() ----------------------------------------
    markup,         \* per cut of the recording: what ffmpeg printed when
                    \* the frames up to its start, and to its end, were remuxed
    mk_i,           \* index of the next cut the loop of _cut_list() takes
    \* ---- the frame/byte-offset strategy of the segment locator ---------
    locator

splitVars  == <<cutlist, duration, clip_thresh, pc, cut_i, pos, elapsed, seg,
                chapters, extracted>>
adjustVars == <<srt, apc, line_i, delay, curr, newsubs, corrected>>
runVars    == <<run, first>>
streamVars == <<probe, language, log, spc, probe_i, fs, vstreams, astreams,
                log_i, fd, _demux_v, _demux_a>>
subsVars   == <<enabled, srt_there>>
cleanVars  == <<_split, files>>
restVars   == <<main, calls, cmds, demux_files, markup, mk_i, locator>>
vars       == <<splitVars, marks, adjustVars, runVars, streamVars, subsVars,
                cleanVars, restVars>>

-----------------------------------------------------------------------------
(* Time *)

TicksPerSec == 10 * 1000

Sec(n) == n * TicksPerSec

Ms(n) == n * (TicksPerSec \div 1000)

\* Python's int() of a float: truncation toward zero.
TruncDiv(a, b) == IF a >= 0 THEN a \div b ELSE -((-a) \div b)

RECURSIVE Pow10(_)
Pow10(n) == IF n = 0 THEN 1 ELSE 10 * Pow10(n - 1)

RECURSIVE SumSeq(_)
SumSeq(s) == IF s = <<>> THEN 0 ELSE Head(s) + SumSeq(Tail(s))

\* self.seg as passed to chapters.add() by split(): None
NoSeg == 0 - 1

-----------------------------------------------------------------------------
(* Bounds and input pools *)

MaxCuts == 2

\* opts['clip_thresh'], in seconds
DefaultClipThresh == 5

CutPoints == {Sec(0), Sec(2), Sec(4), Sec(6), Sec(8), Sec(10), Sec(12)}

\* 4 s is a recording shorter than the default threshold.
Durations == {Sec(4), Sec(10), Sec(12)}

Thresholds == {0, Sec(DefaultClipThresh)}

Cuts == {c \in CutPoints \X CutPoints : c[1] <= c[2]}

\* A cutlist as the sources are meant to deliver it: sorted and disjoint.
SortedDisjoint(cl) ==
    /\ \A k \in 1..Len(cl) : cl[k][1] <= cl[k][2]
    /\ \A k \in 1..(Len(cl) - 1) : cl[k][2] <= cl[k + 1][1]

Within(cl, dur) == \A k \in 1..Len(cl) : cl[k][1] >= 0 /\ cl[k][2] <= dur

CutLists == {cl \in UNION {[1..n -> Cuts] : n \in 0..MaxCuts} : SortedDisjoint(cl)}

\* The end-to-end scenario: one hour, two commercial breaks, threshold 5 s.
Scenario ==
    [duration |-> Sec(3600),
     cutlist |-> <<(<<Sec(600), Sec(660)>>), (<<Sec(1800), Sec(1830)>>)>>,
     clip_thresh |-> Sec(5)]

SplitInputs ==
    {[duration |-> x[1], cutlist |-> x[2], clip_thresh |-> th] :
        x \in {y \in Durations \X CutLists : Within(y[2], y[1])},
        th \in Thresholds}
    \cup {Scenario}

-----------------------------------------------------------------------------
(* _cmd, Subtitles.mark, Transcoder._extract, Transcoder.split *)

\* The return codes a subprocess is taken to end with.
CmdRets == {0, 1}

\* A slip: the return code never looked at.
_cmd_AnyRet(ret, expected) == TRUE

\* _cmd returns normally iff the return code is 0 or the expected one.
_cmd(ret, expected) == ret = 0 \/ ret = expected

\* Subtitles.mark(sec): self.marks += [sec]
mark(sec) == Append(marks, sec)

\* The value _extract hands to Subtitles.mark: clip[1], the end of the clip
\* in the source's own timeline.
MarkOf(clip, el) == clip[2]

\* The name of the clip of segment n, '%s-%d.ts' % (self.source.base, n), as
\* the sequence of its characters; "b" stands for the base.
SplitName(n) == <<"b", "-", ToString(n), ".", "t", "s">>

\* A slip: self.seg += 1 left out.
_extract_SameSeg(clip, el, ret) ==
    LET ok == _cmd(ret, 0) IN
    [ok        |-> ok,
     chapters  |-> Append(chapters, [pos |-> el, seg |-> seg]),
     extracted |-> IF ok
                   THEN Append(extracted, [clip |-> clip, elapsed |-> el, seg |-> seg])
                   ELSE extracted,
     seg       |-> seg,
     marks     |-> IF ok THEN mark(MarkOf(clip, el)) ELSE marks,
     split     |-> _split \o SplitName(seg),
     files     |-> IF ok THEN files \cup {SplitName(seg)} ELSE files]

\* Transcoder._extract(clip, elapsed) with ffmpeg ending with code ret: the
\* chapter is added first; seg and the mark follow only when _cmd returns.
_extract(clip, el, ret) ==
    LET ok == _cmd(ret, 0) IN
    [ok        |-> ok,
     chapters  |-> Append(chapters, [pos |-> el, seg |-> seg]),
     extracted |-> IF ok
                   THEN Append(extracted, [clip |-> clip, elapsed |-> el, seg |-> seg])
                   ELSE extracted,
     seg       |-> IF ok THEN seg + 1 ELSE seg,
     marks     |-> IF ok THEN mark(MarkOf(clip, el)) ELSE marks,
     split     |-> _split \o SplitName(seg),
     files     |-> IF ok THEN files \cup {SplitName(seg)} ELSE files]

\* A slip: the threshold left out of the test on a cut.
KeepBefore_NoThresh(start, p) == start > p

\* The test of split() on a cut: is the piece before it worth extracting?
KeepBefore(start, p) == start > clip_thresh /\ start > p

\* A slip: the threshold left out of the test after the loop.
KeepTail_NoThresh(p) == p < duration

\* The test of split() after the loop: is the rest worth extracting?
KeepTail(p) == p < duration - clip_thresh

\* A slip: the cut's start taken for the length of the piece before it.
ElapsedAfterCut_Abs(start, p) == elapsed + start

\* elapsed after the cut (start, end) has been passed.
ElapsedAfterCut(start, p) == elapsed + (start - p)

\* One iteration of the for loop of split().
SplitCut ==
    /\ pc = "split"
    /\ cut_i <= Len(cutlist)
    /\ LET start == cutlist[cut_i][1]
           end   == cutlist[cut_i][2]
       IN  IF KeepBefore(start, pos)
           THEN \E ret \in CmdRets :
                  LET x == _extract(<<pos, start>>, elapsed, ret) IN
                  /\ chapters' = x.chapters
                  /\ extracted' = x.extracted
                  /\ seg' = x.seg
                  /\ marks' = x.marks
                  /\ _split' = x.split
                  /\ files' = x.files
                  /\ IF x.ok
                     THEN /\ elapsed' = ElapsedAfterCut(start, pos)
                          /\ pos' = end
                          /\ cut_i' = cut_i + 1
                          /\ pc' = "split"
                     ELSE /\ pc' = "failed"
                          /\ UNCHANGED <<elapsed, pos, cut_i>>
           ELSE /\ elapsed' = ElapsedAfterCut(start, pos)
                /\ pos' = end
                /\ cut_i' = cut_i + 1
                /\ UNCHANGED <<pc, chapters, extracted, seg, marks, cleanVars>>
    /\ UNCHANGED <<cutlist, duration, clip_thresh, adjustVars, runVars, streamVars,
                   subsVars, restVars>>

\* The rest of split() after the loop: the trailing clip and the last,
\* unlabelled chapter mark.
SplitTail ==
    /\ pc = "split"
    /\ cut_i > Len(cutlist)
    /\ IF KeepTail(pos)
       THEN \E ret \in CmdRets :
              LET x == _extract(<<pos, duration>>, elapsed, ret) IN
              /\ extracted' = x.extracted
              /\ seg' = x.seg
              /\ marks' = x.marks
              /\ _split' = x.split
              /\ files' = x.files
              /\ IF x.ok
                 THEN /\ elapsed' = elapsed + (duration - pos)
                      /\ pos' = duration
                      /\ chapters' = Append(x.chapters,
                                            [pos |-> elapsed', seg |-> NoSeg])
                      /\ pc' = "split_done"
                 ELSE /\ chapters' = x.chapters
                      /\ pc' = "failed"
                      /\ UNCHANGED <<elapsed, pos>>
       ELSE /\ chapters' = Append(chapters, [pos |-> elapsed, seg |-> NoSeg])
            /\ pc' = "split_done"
            /\ UNCHANGED <<elapsed, pos, extracted, seg, marks, cleanVars>>
    /\ UNCHANGED <<cutlist, duration, clip_thresh, cut_i, adjustVars, runVars,
                   streamVars, subsVars, restVars>>

-----------------------------------------------------------------------------
(* Timestamps as written in an SRT file, and the two conversions *)

\* hh:mm:ss,f..f with nd fraction digits, as the regular expression of
\* adjust() captures it: groups 1-4 (or 5-8).
TS(h, m, s, frac, nd) == [h |-> h, m |-> m, s |-> s, frac |-> frac, nd |-> nd]

NoTS == TS(0, 0, 0, 0, 0)

\* One timestamp of _convert_timestamp: int(h) * 3600 + int(m) * 60 + int(s)
\* + float(f) / 10 ** len(f).
ConvertTS(ts) ==
    (ts.h * 3600 + ts.m * 60 + ts.s) * TicksPerSec
    + (ts.frac * TicksPerSec) \div Pow10(ts.nd)

\* _convert_timestamp(match): the start and the end of a timing line.
_convert_timestamp(line) == <<ConvertTS(line.start), ConvertTS(line.end)>>

\* frac = int(round(sec % 1.0 * 1000)): Python 2 rounds half away from zero,
\* and sec % 1.0 is never negative.
RoundMs(ticks) ==
    ((ticks % TicksPerSec) * 1000 + TicksPerSec \div 2) \div TicksPerSec

\* _seconds_to_time_frac(sec, True): '%02d:%02d:%02d,%03d'.  The seconds are
\* truncated by %d while the fraction is rounded on its own, so a fraction of
\* .9995 or more is written as ',1000'.
_seconds_to_time_frac(sec) ==
    LET hours   == TruncDiv(sec, 3600 * TicksPerSec)
        sec1    == sec - hours * 3600 * TicksPerSec
        minutes == TruncDiv(sec1, 60 * TicksPerSec)
        sec2    == sec1 - minutes * 60 * TicksPerSec
        frac    == RoundMs(sec2)
    IN  TS(hours, minutes, TruncDiv(sec2, TicksPerSec), frac,
           IF frac > 999 THEN 4 ELSE 3)

-----------------------------------------------------------------------------
(* The lines of an SRT file *)

\* A timing line: what the regular expression matches (two timestamps around
\* an arrow) and the line's end.
TimingLine(a, b, sep, eol) ==
    [kind |-> "time", start |-> a, end |-> b, sep |-> sep, eol |-> eol, text |-> 0]

\* Any other line (an index, a caption's text, a blank line), told apart by n.
TextLine(n, eol) ==
    [kind |-> "text", start |-> NoTS, end |-> NoTS, sep |-> "", eol |-> eol, text |-> n]

\* A slip: a pattern no line matches (a '.' for the ',' of the fraction).
IsTimingLine_Never(line) == FALSE

\* re.search(regex, line)
IsTimingLine(line) == line.kind = "time"

\* newsubs += '%s --> %s\n' % (start, end)
FormatTiming(start, end) ==
    TimingLine(_seconds_to_time_frac(start), _seconds_to_time_frac(end), " --> ", "\n")

MaxCaps == 2

MaxMarks == 2

\* Timestamps the captions of the input are drawn from: 4 s, 9 s, 12 s, 14.25 s.
StampPool == {TS(0, 0, 4, 0, 3), TS(0, 0, 9, 0, 3), TS(0, 0, 12, 0, 3),
              TS(0, 0, 14, 25, 2)}

\* Cut points the marks are drawn from; 10.9996 s is no whole millisecond.
MarkPool == {Sec(5), Sec(10), Sec(10) + Ms(999) + 6, Sec(13)}

Eols == {"\n", "\r\n"}

CaptionPool == {c \in StampPool \X StampPool : ConvertTS(c[1]) <= ConvertTS(c[2])}

\* The file ccextractor writes for the captions caps: per caption a timing
\* line and a line of text.
SrtOf(caps, eol) ==
    [k \in 1..(2 * Len(caps)) |->
        IF k % 2 = 1
        THEN TimingLine(caps[(k + 1) \div 2][1], caps[(k + 1) \div 2][2], " --> ", eol)
        ELSE TextLine(k \div 2, eol)]

SrtFiles ==
    {SrtOf(caps, eol) : caps \in UNION {[1..n -> CaptionPool] : n \in 0..MaxCaps},
                        eol \in Eols}

Increasing(s) == \A k \in 1..(Len(s) - 1) : s[k] < s[k + 1]

MarkSeqs == {m \in UNION {[1..n -> MarkPool] : n \in 0..MaxMarks} : Increasing(m)}

-----------------------------------------------------------------------------
(* Subtitles.adjust *)

\* A slip: the early return left out.
NothingToAdjust_Never == FALSE

\* if len(self.marks) == 0: return
NothingToAdjust == Len(marks) = 0

\* A slip: the marks never looked at.
MarkBeforeEnd_Never(c, end) == FALSE

\* curr < len(self.marks) and self.marks[curr] < end
MarkBeforeEnd(c, end) == c < Len(marks) /\ marks[c + 1] < end

\* A slip: every caption that ends after the mark is clipped to it.
MarkAfterStart_Always(c, start) == TRUE

\* self.marks[curr] > start
MarkAfterStart(c, start) == marks[c + 1] > start

\* A slip: the end is clipped but the delay is left as it was.
AdjustEntry_KeepDelay(raw, d, c) ==
    LET start == raw[1] + d
        end   == raw[2] + d
    IN  IF c < Len(marks) /\ marks[c + 1] < end
        THEN IF marks[c + 1] > start
             THEN [start |-> start, end0 |-> end, end |-> marks[c + 1],
                   delay |-> d, curr |-> c + 1, clipped |-> TRUE]
             ELSE [start |-> start, end0 |-> end, end |-> end, delay |-> d,
                   curr |-> c + 1, clipped |-> FALSE]
        ELSE [start |-> start, end0 |-> end, end |-> end, delay |-> d,
              curr |-> c, clipped |-> FALSE]

\* A slip: curr += 1 moved into the else of the inner if, so that a mark that
\* clipped a caption stays the current one.
AdjustEntry_StayOnClip(raw, d, c) ==
    LET start == raw[1] + d
        end   == raw[2] + d
    IN  IF c < Len(marks) /\ marks[c + 1] < end
        THEN IF marks[c + 1] > start
             THEN [start |-> start, end0 |-> end, end |-> marks[c + 1],
                   delay |-> d + (marks[c + 1] - end), curr |-> c,
                   clipped |-> TRUE]
             ELSE [start |-> start, end0 |-> end, end |-> end, delay |-> d,
                   curr |-> c + 1, clipped |-> FALSE]
        ELSE [start |-> start, end0 |-> end, end |-> end, delay |-> d,
              curr |-> c, clipped |-> FALSE]

\* The body of `if match:` up to the formatting: the corrected start and end
\* of a caption, and delay and curr after it.
AdjustEntry(raw, d, c) ==
    LET start == raw[1] + d
        end   == raw[2] + d
    IN  IF MarkBeforeEnd(c, end)
        THEN IF MarkAfterStart(c, start)
             THEN [start |-> start, end0 |-> end, end |-> marks[c + 1],
                   delay |-> d + (marks[c + 1] - end), curr |-> c + 1,
                   clipped |-> TRUE]
             ELSE [start |-> start, end0 |-> end, end |-> end, delay |-> d,
                   curr |-> c + 1, clipped |-> FALSE]
        ELSE [start |-> start, end0 |-> end, end |-> end, delay |-> d,
              curr |-> c, clipped |-> FALSE]

\* with open(self.srt, 'r') as subs: an IOError when there is no such file.
CanOpen == srt_there

\* adjust() is called: it returns at once without marks, else opens the file.
AdjustBegin ==
    /\ apc = "idle"
    /\ calls' = Append(calls, "adjust")
    /\ IF NothingToAdjust THEN apc' = "returned"
       ELSE IF CanOpen THEN apc' = "loop"
       ELSE apc' = "ioerror"
    /\ delay' = 0
    /\ curr' = 0
    /\ newsubs' = <<>>
    /\ UNCHANGED <<splitVars, runVars, streamVars, subsVars, cleanVars, main,
                   cmds, demux_files, markup, mk_i, locator,
                   marks, srt, line_i, corrected>>

\* One iteration of `for line in subs`.
AdjustLine ==
    /\ apc = "loop"
    /\ line_i <= Len(srt)
    /\ LET line == srt[line_i] IN
       IF IsTimingLine(line)
       THEN LET raw == _convert_timestamp(line)
                e   == AdjustEntry(raw, delay, curr)
            IN  /\ delay' = e.delay
                /\ curr' = e.curr
                /\ newsubs' = Append(newsubs, FormatTiming(e.start, e.end))
                /\ corrected' = Append(corrected,
                       [line |-> line_i, rawStart |-> raw[1], rawEnd |-> raw[2],
                        start |-> e.start, end0 |-> e.end0, end |-> e.end,
                        clipped |-> e.clipped,
                        delay0 |-> delay, delay1 |-> e.delay,
                        curr0 |-> curr, curr1 |-> e.curr])
       ELSE /\ newsubs' = Append(newsubs, line)
            /\ UNCHANGED <<delay, curr, corrected>>
    /\ line_i' = line_i + 1
    /\ UNCHANGED <<splitVars, runVars, streamVars, subsVars, cleanVars, restVars,
                   marks, srt, apc>>

\* A slip: the file is written anew only when there are lines to write.
AdjustWrite_NeedsLines ==
    /\ apc = "loop"
    /\ line_i > Len(srt)
    /\ newsubs # <<>>
    /\ srt' = newsubs
    /\ srt_there' = TRUE
    /\ apc' = "written"
    /\ UNCHANGED <<splitVars, runVars, streamVars, cleanVars, restVars, enabled,
                   marks, line_i, delay, curr, newsubs, corrected>>

\* After the loop: _clean(self.srt) and the file is written anew.
AdjustWrite ==
    /\ apc = "loop"
    /\ line_i > Len(srt)
    /\ srt' = newsubs
    /\ srt_there' = TRUE
    /\ apc' = "written"
    /\ UNCHANGED <<splitVars, runVars, streamVars, cleanVars, restVars, enabled,
                   marks, line_i, delay, curr, newsubs, corrected>>

-----------------------------------------------------------------------------
(* Specifications *)

\* self._demux_v = None
NoFile == 0

\* No run of split() has ended yet.
NoFirst == [extracted |-> <<>>, chapters |-> <<>>, marks |-> <<>>]

RunIdle ==
    /\ run = 1
    /\ first = NoFirst

\* The counters of _find_demux() as it sets them before its loop.
FdStart == [found_v |-> 0, found_a |-> 0, targ_v |-> 0, targ_a |-> 0,
            curr_v |-> 1, curr_a |-> 1]

StreamsIdle ==
    /\ probe = <<>>
    /\ language = "en"
    /\ log = <<>>
    /\ spc = "idle"
    /\ probe_i = 1
    /\ fs = [vstreams |-> <<>>, astreams |-> <<>>]
    /\ vstreams = <<>>
    /\ astreams = <<>>
    /\ log_i = 1
    /\ fd = FdStart
    /\ _demux_v = NoFile
    /\ _demux_a = NoFile

\* Nothing has been asked of the segment locator.
NoLocator == [state |-> "idle", totalFrames |-> 0, extraBytes |-> 0,
              measuredBytes |-> 0, frame |-> 0, byteOffset |-> 0]

\* Transcoder._split = [] and no clip written yet.
CleanIdle ==
    /\ _split = <<>>
    /\ files = {}

RestIdle ==
    /\ main = "idle"
    /\ calls = <<>>
    /\ cmds = <<>>
    /\ demux_files = {}
    /\ markup = <<>>
    /\ mk_i = 1
    /\ locator = NoLocator

AdjustIdle ==
    /\ apc = "idle"
    /\ line_i = 1
    /\ delay = 0
    /\ curr = 0
    /\ newsubs = <<>>
    /\ corrected = <<>>

\* A fresh process about to run split() on one of the inputs.
Init ==
    /\ \E in \in SplitInputs :
         /\ cutlist = in.cutlist
         /\ duration = in.duration
         /\ clip_thresh = in.clip_thresh
    /\ pc = "split"
    /\ cut_i = 1
    /\ pos = 0
    /\ elapsed = 0
    /\ seg = 0
    /\ chapters = <<>>
    /\ extracted = <<>>
    /\ marks = <<>>
    /\ srt = <<>>
    /\ AdjustIdle
    /\ RunIdle
    /\ StreamsIdle
    /\ enabled = TRUE
    /\ srt_there = FALSE
    /\ CleanIdle
    /\ RestIdle

Next == SplitCut \/ SplitTail

Spec == Init /\ [][Next]_vars

\* adjust() about to run on a caption file, with the marks an earlier split()
\* left; adjust() reads nothing else of the planning state.
InitAdjust ==
    /\ cutlist = <<>>
    /\ duration = 0
    /\ clip_thresh = 0
    /\ pc = "joined"
    /\ cut_i = 1
    /\ pos = 0
    /\ elapsed = 0
    /\ seg = 0
    /\ chapters = <<>>
    /\ extracted = <<>>
    /\ marks \in MarkSeqs
    /\ srt \in SrtFiles
    /\ AdjustIdle
    /\ RunIdle
    /\ StreamsIdle
    /\ enabled = TRUE
    /\ srt_there = TRUE
    /\ CleanIdle
    /\ RestIdle

NextAdjust == AdjustBegin \/ AdjustLine \/ AdjustWrite

SpecAdjust == InitAdjust /\ [][NextAdjust]_vars

-----------------------------------------------------------------------------
(* Claims about Transcoder.split(), under Spec *)

InScenario ==
    /\ duration = Scenario.duration
    /\ cutlist = Scenario.cutlist
    /\ clip_thresh = Scenario.clip_thresh

\* The clips extracted and the elapsed positions passed with them.
Plan == [k \in 1..Len(extracted) |->
            <<extracted[k].clip[1], extracted[k].clip[2], extracted[k].elapsed>>]

ScenarioPlan ==
    << <<Sec(0), Sec(600), Sec(0)>>,
       <<Sec(660), Sec(1800), Sec(600)>>,
       <<Sec(1830), Sec(3600), Sec(1740)>> >>

LastChapter == chapters[Len(chapters)]

\* C1, as stated: on the scenario (3600 s, cuts (600,660) and (1800,1830),
\* threshold 5) split() extracts [0,600), [660,1800), [1830,3600) at elapsed
\* 0, 600, 1740 and puts the last, unlabelled chapter mark at 3540.
C1_AsStated ==
    (InScenario /\ pc = "split_done") =>
        /\ Plan = ScenarioPlan
        /\ LastChapter = [pos |-> Sec(3540), seg |-> NoSeg]

\* C1, as amended: the same three clips at elapsed 0, 600, 1740, and the last,
\* unlabelled chapter mark at 3510 = 600 + 1140 + 1770, the length of what is
\* kept.
C1_Scenario ==
    (InScenario /\ pc = "split_done") =>
        /\ Plan = ScenarioPlan
        /\ LastChapter = [pos |-> Sec(3510), seg |-> NoSeg]

\* The scenario has run to the end of split() with its three clips extracted.
C1_Witness == InScenario /\ pc = "split_done" /\ Len(extracted) = 3

ClipLen(k) == extracted[k].clip[2] - extracted[k].clip[1]

\* The total length of the clips extracted before the k-th.
LenBefore(k) == SumSeq([j \in 1..(k - 1) |-> ClipLen(j)])

\* C2: the elapsed value passed with each extracted clip is the sum of the
\* lengths of the clips extracted before it.
C2_ElapsedIsSumOfPrior ==
    \A k \in 1..Len(extracted) : extracted[k].elapsed = LenBefore(k)

\* C3: the marks recorded for adjust() are, clip by clip and in order, the
\* clips' ends in the final timeline (elapsed at start + length), and they
\* strictly increase.
C3_MarksAreFinalEnds ==
    /\ marks = [k \in 1..Len(extracted) |-> extracted[k].elapsed + ClipLen(k)]
    /\ Increasing(marks)

-----------------------------------------------------------------------------
(* Claims about Subtitles.adjust(), under SpecAdjust *)

\* The mark at the cursor when adjust() came to entry e, if there was one.
HadMark(e) == e.curr0 < Len(marks)

MarkAt(e) == marks[e.curr0 + 1]

\* The mark at the cursor lay strictly inside the entry's corrected range.
Straddled(e) ==
    /\ HadMark(e)
    /\ e.rawStart + e.delay0 < MarkAt(e)
    /\ MarkAt(e) < e.rawEnd + e.delay0

\* The caption of C4: 9.0 to 12.0, delay 0, the mark at the cursor at 10.0.
C4_Case(e) ==
    /\ e.rawStart = Sec(9)
    /\ e.rawEnd = Sec(12)
    /\ e.delay0 = 0
    /\ HadMark(e)
    /\ MarkAt(e) = Sec(10)

\* C4, as stated: the caption 9.0-12.0 at the boundary 10.0 is emitted with
\* its end at 10.0 and the delay increases by 2.0 for the entries after it.
C4_AsStated ==
    \A k \in 1..Len(corrected) :
        C4_Case(corrected[k]) =>
            /\ corrected[k].end = Sec(10)
            /\ corrected[k].delay1 = corrected[k].delay0 + Sec(2)
            /\ k < Len(corrected) =>
                 corrected[k + 1].start = corrected[k + 1].rawStart + Sec(2)

\* C4, as amended: the caption is emitted with its end at 10.0 (written
\* 00:00:10,000) and the delay changes by -2.0, so that the entries after it
\* are moved 2.0 s earlier.
C4_ClipAtTen ==
    \A k \in 1..Len(corrected) :
        C4_Case(corrected[k]) =>
            /\ corrected[k].end = Sec(10)
            /\ newsubs[corrected[k].line].end = TS(0, 0, 10, 0, 3)
            /\ newsubs[corrected[k].line].start = TS(0, 0, 9, 0, 3)
            /\ corrected[k].delay1 = corrected[k].delay0 - Sec(2)
            /\ k < Len(corrected) =>
                 corrected[k + 1].start = corrected[k + 1].rawStart - Sec(2)

\* The caption of C4 has been clipped and another caption came after it.
C4_Witness ==
    \E k \in 1..Len(corrected) :
        C4_Case(corrected[k]) /\ k < Len(corrected) /\ apc = "written"

\* C5: a caption with the mark at the cursor strictly inside its corrected
\* range ends at that mark, and the corrected start and end of every later
\* caption are moved earlier by what the caption lost (and by no less).
C5_ClipAndShift ==
    \A k \in 1..Len(corrected) :
        LET e    == corrected[k]
            lost == (e.rawEnd + e.delay0) - MarkAt(e)
        IN  Straddled(e) =>
              /\ e.end = MarkAt(e)
              /\ e.start = e.rawStart + e.delay0
              /\ lost > 0
              /\ e.delay1 = e.delay0 - lost
              /\ k < Len(corrected) =>
                   /\ corrected[k + 1].start
                        = corrected[k + 1].rawStart + e.delay0 - lost
                   /\ corrected[k + 1].end0
                        = corrected[k + 1].rawEnd + e.delay0 - lost
              /\ \A j \in (k + 1)..Len(corrected) :
                   corrected[j].delay0 <= e.delay0 - lost

\* A caption was clipped at the mark inside it and another came after it.
C5_Witness ==
    \E k \in 1..Len(corrected) :
        /\ Straddled(corrected[k])
        /\ k < Len(corrected)
        /\ apc = "written"

\* C6: once a caption is emitted, the cursor is past the last mark or the mark
\* at the cursor is not before the caption's emitted end.
C6_MarksConsumed ==
    \A k \in 1..Len(corrected) :
        \/ corrected[k].curr1 >= Len(marks)
        \/ marks[corrected[k].curr1 + 1] >= corrected[k].end

C8_State ==
    /\ curr >= 0
    /\ curr <= Len(marks)
    /\ \A k \in 1..Len(corrected) :
         /\ corrected[k].curr0 <= corrected[k].curr1
         /\ corrected[k].curr1 <= Len(marks)
         /\ \A j \in 1..(k - 1) :
              /\ corrected[j].curr1 <= corrected[k].curr0
              /\ (corrected[j].clipped /\ corrected[k].clipped) =>
                    corrected[j].curr0 < corrected[k].curr0
         /\ corrected[k].clipped =>
              /\ corrected[k].end = MarkAt(corrected[k])
              /\ corrected[k].curr1 = corrected[k].curr0 + 1

\* C8: the cursor never moves back, never passes the number of marks, and
\* each mark clips at most one caption.
C8_CursorForward == [](C8_State) /\ [][curr' >= curr]_vars

\* Two captions have been clipped and every mark is consumed.
C8_Witness ==
    \E k \in 1..Len(corrected) : \E j \in 1..(k - 1) :
        /\ corrected[j].clipped
        /\ corrected[k].clipped
        /\ curr = Len(marks)

\* C9: without marks adjust() leaves the caption file as it is.
C9_NoMarksNoChange == [][Len(marks) = 0 => srt' = srt]_vars

\* adjust() has returned, without marks, on a file with CRLF timing lines.
C9_Witness ==
    /\ Len(marks) = 0
    /\ apc = "returned"
    /\ \E k \in 1..Len(srt) : srt[k].kind = "time" /\ srt[k].eol = "\r\n"

TimingLinesBefore(n) == {k \in 1..(n - 1) : srt[k].kind = "time"}

\* What C10 says while adjust() reads the file: a line is written for every
\* line read; a line that is no timing line is written as read; every timing
\* line gets one corrected entry, in the order read, and its line holds the
\* entry's times.
C10_State ==
    apc = "loop" =>
        /\ Len(newsubs) = line_i - 1
        /\ Len(corrected) = Cardinality(TimingLinesBefore(line_i))
        /\ \A k \in 1..Len(corrected) :
             /\ corrected[k].line \in TimingLinesBefore(line_i)
             /\ \A j \in 1..(k - 1) : corrected[j].line < corrected[k].line
             /\ corrected[k].rawStart = ConvertTS(srt[corrected[k].line].start)
             /\ corrected[k].rawEnd = ConvertTS(srt[corrected[k].line].end)
             /\ newsubs[corrected[k].line]
                  = FormatTiming(corrected[k].start, corrected[k].end)
        /\ \A k \in 1..(line_i - 1) :
             srt[k].kind # "time" => newsubs[k] = srt[k]

\* C10: adjust() writes one corrected entry per caption, in order, every other
\* line unchanged, and what it has built is what the file then holds.
C10_OneEntryPerCaption ==
    [](C10_State) /\ [][apc' = "written" => srt' = newsubs]_vars

\* adjust() has rewritten a file of MaxCaps captions, one of them clipped.
C10_Witness ==
    /\ apc = "written"
    /\ Len(corrected) = MaxCaps
    /\ Len(srt) = 2 * MaxCaps
    /\ \E k \in 1..Len(corrected) : corrected[k].clipped

-----------------------------------------------------------------------------
(* More claims about Transcoder.split(), under Spec *)

Unlabelled == {k \in 1..Len(chapters) : chapters[k].seg = NoSeg}

C12_ChapterMarks ==
    pc = "split_done" =>
        /\ Unlabelled = {Len(chapters)}
        /\ LastChapter.pos = LenBefore(Len(extracted) + 1)
        /\ Len(chapters) = Len(extracted) + 1
        /\ \A k \in 1..Len(extracted) :
             chapters[k] = [pos |-> extracted[k].elapsed, seg |-> extracted[k].seg]

RECURSIVE CutLen(_)
\* The total length of the remove intervals of a cutlist.
CutLen(cl) == IF cl = <<>> THEN 0 ELSE (Head(cl)[2] - Head(cl)[1]) + CutLen(Tail(cl))

\* Where the gap before the k-th cut begins: at 0, or at the end of the cut
\* before it.
GapStart(k) == IF k = 1 THEN 0 ELSE cutlist[k - 1][2]

\* The gaps of the cutlist that end at or before the threshold.
EarlyGaps == {k \in 1..Len(cutlist) : cutlist[k][1] <= clip_thresh}

\* The total length of the pieces the two threshold tests are to drop, worked
\* out from the inputs alone.
DroppedLen ==
    SumSeq([k \in 1..Len(cutlist) |->
               IF k \in EarlyGaps THEN cutlist[k][1] - GapStart(k) ELSE 0])
    + (IF GapStart(Len(cutlist) + 1) >= duration - clip_thresh
       THEN duration - GapStart(Len(cutlist) + 1) ELSE 0)

\* C13: for a sorted, disjoint cutlist inside [0, duration] the clips
\* extracted, the remove intervals and the pieces dropped by the threshold
\* tests add up to the source duration.
C13_Partition ==
    (pc = "split_done" /\ SortedDisjoint(cutlist) /\ Within(cutlist, duration)) =>
        LenBefore(Len(extracted) + 1) + CutLen(cutlist) + DroppedLen = duration

\* A run that extracted a clip, dropped an early gap and dropped the tail.
C13_Witness ==
    /\ pc = "split_done"
    /\ Len(cutlist) = 2
    /\ Len(extracted) = 1
    /\ 1 \in EarlyGaps
    /\ cutlist[1][1] > 0
    /\ GapStart(3) < duration
    /\ GapStart(3) >= duration - clip_thresh

-----------------------------------------------------------------------------
(* A second run of split() in the same process *)

\* split() is called again on the same inputs: on the same Transcoder, or
\* (fresh) on a new Transcoder with new Subtitles and chapters.  A new
\* Transcoder reads seg = 0 from the class and a new chapters object is empty;
\* Subtitles.marks is one list of the class, which mark() extends in place,
\* so every Subtitles object sees the marks of the runs before.
Rerun(fresh) ==
    /\ pc = "split_done"
    /\ run = 1
    /\ run' = 2
    /\ first' = [extracted |-> extracted, chapters |-> chapters, marks |-> marks]
    /\ pc' = "split"
    /\ cut_i' = 1
    /\ pos' = 0
    /\ elapsed' = 0
    /\ extracted' = <<>>
    /\ IF fresh
       THEN seg' = 0 /\ chapters' = <<>>
       ELSE UNCHANGED <<seg, chapters>>
    /\ UNCHANGED <<cutlist, duration, clip_thresh, marks, adjustVars, streamVars,
                   subsVars, cleanVars, restVars>>

NextRerun == SplitCut \/ SplitTail \/ \E fresh \in BOOLEAN : Rerun(fresh)

SpecRerun == Init /\ [][NextRerun]_vars

\* C14: a second run of split() on the same cutlist, duration and threshold
\* (same Transcoder or a fresh one) extracts the same clips with the same
\* segment indices, adds the same chapter marks and leaves the same marks.
C14_SecondRunSame ==
    (run = 2 /\ pc = "split_done") =>
        /\ extracted = first.extracted
        /\ chapters = first.chapters
        /\ marks = first.marks

-----------------------------------------------------------------------------
(* split() on any cutlist *)

\* Cutlists as they may come: in any order, overlapping or not.
AnyCutLists == UNION {[1..n -> Cuts] : n \in 0..MaxCuts}

InitAny ==
    /\ duration = Sec(12)
    /\ clip_thresh \in Thresholds
    /\ cutlist \in {cl \in AnyCutLists : Within(cl, Sec(12))}
    /\ pc = "split"
    /\ cut_i = 1
    /\ pos = 0
    /\ elapsed = 0
    /\ seg = 0
    /\ chapters = <<>>
    /\ extracted = <<>>
    /\ marks = <<>>
    /\ srt = <<>>
    /\ AdjustIdle
    /\ RunIdle
    /\ StreamsIdle
    /\ enabled = TRUE
    /\ srt_there = FALSE
    /\ CleanIdle
    /\ RestIdle

SpecAny == InitAny /\ [][Next]_vars

\* C15: on a cutlist that is unsorted or has overlapping remove intervals
\* split() reports an error before anything is extracted, added or marked.
C15_InvalidRejected ==
    ~SortedDisjoint(cutlist) =>
        /\ extracted = <<>>
        /\ chapters = <<>>
        /\ marks = <<>>
        /\ pc # "split_done"

-----------------------------------------------------------------------------
(* Transcoder._find_streams and Transcoder._find_demux *)

\* PIDs of the streams of the joined file.
VideoPids == {1, 2}
AudioPids == {3, 4}

\* What ffmpeg prints in parentheses after the PID of an audio stream; "" when
\* it prints no language.
Tags == {"eng", "fra", ""}

Languages == {"en", "fr"}

_iso_639_2(lang) ==
    CASE lang = "en" -> "eng"
      [] lang = "fr" -> "fra"
      [] OTHER -> "ValueError"

\* The sequences over S that name no element twice.
DistinctSeqs(S) ==
    {o \in UNION {[1..n -> S] : n \in 0..Cardinality(S)} :
        \A i, j \in 1..Len(o) : o[i] = o[j] => i = j}

\* The stream lines of the probe: the video streams in some order, with or
\* without "(Main)", then the audio streams in some order, each with a tag.
VideoParts ==
    {[k \in 1..Len(o) |-> [kind |-> "video", pid |-> o[k], main |-> m[o[k]],
                           tag |-> ""]] :
        o \in DistinctSeqs(VideoPids), m \in [VideoPids -> BOOLEAN]}

AudioParts ==
    {[k \in 1..Len(o) |-> [kind |-> "audio", pid |-> o[k], main |-> FALSE,
                           tag |-> t[o[k]]]] :
        o \in DistinctSeqs(AudioPids), t \in [AudioPids -> Tags]}

Probes == {x[1] \o x[2] : x \in VideoParts \X AudioParts}

PidsOf(lines, kind) == {lines[k].pid : k \in {i \in 1..Len(lines) : lines[i].kind = kind}}

\* The log Project-X writes: a PID line per stream it finds, then a file line
\* per stream it wrote, the files in the order of the PID lines.  A file is
\* named here by the PID of the stream it holds.
LogOf(vo, ao) ==
    [k \in 1..Len(vo) |-> [kind |-> "vpid", pid |-> vo[k]]] \o
    [k \in 1..Len(ao) |-> [kind |-> "apid", pid |-> ao[k]]] \o
    [k \in 1..Len(vo) |-> [kind |-> "vfile", pid |-> vo[k]]] \o
    [k \in 1..Len(ao) |-> [kind |-> "afile", pid |-> ao[k]]]

LogsOf(lines) ==
    {LogOf(vo, ao) :
        vo \in {o \in DistinctSeqs(VideoPids) :
                    {o[k] : k \in 1..Len(o)} = PidsOf(lines, "video")},
        ao \in {o \in DistinctSeqs(AudioPids) :
                    {o[k] : k \in 1..Len(o)} = PidsOf(lines, "audio")}}

\* The indices of the streams of s that are enabled.
Enabled(s) == {k \in 1..Len(s) : s[k][2]}

\* A slip: the test for a kind without streams left out.
NoStreams_Never(s) == FALSE

\* len(vstreams) == 0, len(astreams) == 0
NoStreams(s) == Len(s) = 0

\* if len([... if vid[1]]) == 0: vstreams[0] = (vstreams[0][0], True)
EnableFirst(s) ==
    IF Enabled(s) = {} THEN [s EXCEPT ![1] = <<s[1][1], TRUE>>] ELSE s

\* for vid in vstreams: if vid[0] == pid and vid[1]: targ_v = found_v
Target(streams, pid, found, targ) ==
    IF \E k \in Enabled(streams) : streams[k][1] = pid THEN found ELSE targ

\* One iteration of `for line in proc.stdout` of _find_streams().
FindStreamsLine ==
    /\ spc = "probe"
    /\ probe_i <= Len(probe)
    /\ LET line == probe[probe_i] IN
        fs' = [vstreams |->
                  IF line.kind = "video"
                  THEN Append(fs.vstreams, <<line.pid, line.main>>)
                  ELSE fs.vstreams,
               astreams |->
                  IF line.kind = "audio"
                  THEN Append(fs.astreams,
                              <<line.pid,
                                line.tag # "" /\ line.tag = _iso_639_2(language)>>)
                  ELSE fs.astreams]
    /\ probe_i' = probe_i + 1
    /\ UNCHANGED <<splitVars, marks, adjustVars, runVars, subsVars, cleanVars,
                   restVars, probe, language, log,
                   spc, vstreams, astreams, log_i, fd, _demux_v, _demux_a>>

\* The end of _find_streams(): it raises, or enables the first stream of a
\* kind where none is enabled and returns to _find_demux(), which sets its
\* counters.  Indexing an empty list is an IndexError.
FindStreamsEnd ==
    /\ spc = "probe"
    /\ probe_i > Len(probe)
    /\ IF NoStreams(fs.vstreams)
       THEN spc' = "no_video" /\ UNCHANGED <<fs, vstreams, astreams>>
       ELSE IF NoStreams(fs.astreams)
       THEN spc' = "no_audio" /\ UNCHANGED <<fs, vstreams, astreams>>
       ELSE IF fs.vstreams = <<>> \/ fs.astreams = <<>>
       THEN spc' = "index_error" /\ UNCHANGED <<fs, vstreams, astreams>>
       ELSE /\ spc' = "demux"
            /\ fs' = [vstreams |-> EnableFirst(fs.vstreams),
                      astreams |-> EnableFirst(fs.astreams)]
            /\ vstreams' = fs'.vstreams
            /\ astreams' = fs'.astreams
    /\ fd' = FdStart
    /\ log_i' = 1
    /\ UNCHANGED <<splitVars, marks, adjustVars, runVars, subsVars, cleanVars,
                   restVars, probe, language, log,
                   probe_i, _demux_v, _demux_a>>

\* re.search(fileRE, line): the line of a file ends with a quoted name.  A
\* line without one carries NoFile for the name.
HasName(line) == line.pid # NoFile

\* One iteration of `for line in log` of _find_demux().
FindDemuxLine ==
    /\ spc = "demux"
    /\ log_i <= Len(log)
    /\ LET line == log[log_i] IN
        CASE line.kind = "vpid" ->
                /\ fd' = [fd EXCEPT !.found_v = fd.found_v + 1,
                                    !.targ_v = Target(vstreams, line.pid,
                                                      fd.found_v + 1, fd.targ_v)]
                /\ UNCHANGED <<_demux_v, _demux_a>>
          [] line.kind = "apid" ->
                /\ fd' = [fd EXCEPT !.found_a = fd.found_a + 1,
                                    !.targ_a = Target(astreams, line.pid,
                                                      fd.found_a + 1, fd.targ_a)]
                /\ UNCHANGED <<_demux_v, _demux_a>>
          [] line.kind = "vfile" ->
                /\ _demux_v' = IF HasName(line) /\ fd.curr_v = fd.targ_v
                               THEN line.pid ELSE _demux_v
                /\ fd' = [fd EXCEPT !.curr_v = fd.curr_v + 1]
                /\ UNCHANGED _demux_a
          [] line.kind = "afile" ->
                /\ _demux_a' = IF HasName(line) /\ fd.curr_a = fd.targ_a
                               THEN line.pid ELSE _demux_a
                /\ fd' = [fd EXCEPT !.curr_a = fd.curr_a + 1]
                /\ UNCHANGED _demux_v
    /\ log_i' = log_i + 1
    /\ UNCHANGED <<splitVars, marks, adjustVars, runVars, subsVars, cleanVars,
                   restVars, probe, language, log,
                   spc, probe_i, fs, vstreams, astreams>>

\* The log is read to its end: _find_demux() returns.
FindDemuxEnd ==
    /\ spc = "demux"
    /\ log_i > Len(log)
    /\ spc' = "demuxed"
    /\ UNCHANGED <<splitVars, marks, adjustVars, runVars, subsVars, cleanVars,
                   restVars, probe, language, log,
                   probe_i, fs, vstreams, astreams, log_i, fd, _demux_v, _demux_a>>

InitStreams ==
    /\ cutlist = <<>>
    /\ duration = 0
    /\ clip_thresh = 0
    /\ pc = "joined"
    /\ cut_i = 1
    /\ pos = 0
    /\ elapsed = 0
    /\ seg = 0
    /\ chapters = <<>>
    /\ extracted = <<>>
    /\ marks = <<>>
    /\ srt = <<>>
    /\ AdjustIdle
    /\ RunIdle
    /\ probe \in Probes
    /\ language \in Languages
    /\ log \in LogsOf(probe)
    /\ spc = "probe"
    /\ probe_i = 1
    /\ fs = [vstreams |-> <<>>, astreams |-> <<>>]
    /\ vstreams = <<>>
    /\ astreams = <<>>
    /\ log_i = 1
    /\ fd = FdStart
    /\ _demux_v = NoFile
    /\ _demux_a = NoFile
    /\ enabled = TRUE
    /\ srt_there = FALSE
    /\ CleanIdle
    /\ RestIdle

NextStreams == FindStreamsLine \/ FindStreamsEnd \/ FindDemuxLine \/ FindDemuxEnd

SpecStreams == InitStreams /\ [][NextStreams]_vars

-----------------------------------------------------------------------------
(* Claims about the choice of streams, under SpecStreams *)

VideoLines == SelectSeq(probe, LAMBDA l : l.kind = "video")
AudioLines == SelectSeq(probe, LAMBDA l : l.kind = "audio")

Min(S) == CHOOSE x \in S : \A y \in S : x <= y

MainLines == {k \in 1..Len(VideoLines) : VideoLines[k].main}

MatchingLines ==
    {k \in 1..Len(AudioLines) : AudioLines[k].tag = _iso_639_2(language)}

\* The PID of the video stream to choose: the first flagged Main, or the first.
WantedVideo ==
    IF MainLines # {} THEN VideoLines[Min(MainLines)].pid ELSE VideoLines[1].pid

\* The PID of the audio stream to choose: the first of the language asked
\* for, or the first.
WantedAudio ==
    IF MatchingLines # {} THEN AudioLines[Min(MatchingLines)].pid
    ELSE AudioLines[1].pid

EnabledPids(s) == {s[k][1] : k \in Enabled(s)}

\* C16: the video stream selected and demuxed is the first one flagged Main
\* in probe order, also when several are flagged; the first one when none is.
C16_FirstMainVideo ==
    spc = "demuxed" =>
        /\ EnabledPids(vstreams) = {WantedVideo}
        /\ _demux_v = WantedVideo

\* C17: the audio stream selected and demuxed is the first one in probe order
\* whose tag is the language asked for, also when several match; the first
\* one when none matches.
C17_FirstMatchingAudio ==
    spc = "demuxed" =>
        /\ EnabledPids(astreams) = {WantedAudio}
        /\ _demux_a = WantedAudio

\* C18: when _find_streams() returns, exactly one video stream and exactly
\* one audio stream are enabled.
C18_OneEnabledPerKind ==
    spc \in {"demux", "demuxed"} =>
        /\ Cardinality(Enabled(vstreams)) = 1
        /\ Cardinality(Enabled(astreams)) = 1

\* C19: _find_streams() raises, and returns no streams, when the probe has no
\* video stream or no audio stream, and only then.
C19_FailsIffKindMissing ==
    /\ spc \in {"no_video", "no_audio"} =>
        /\ VideoLines = <<>> \/ AudioLines = <<>>
        /\ spc = "no_video" <=> VideoLines = <<>>
        /\ vstreams = <<>> /\ astreams = <<>>
        /\ _demux_v = NoFile /\ _demux_a = NoFile
    /\ spc \in {"demux", "demuxed"} => VideoLines # <<>> /\ AudioLines # <<>>
    /\ spc # "index_error"

C19_Witness ==
    /\ spc = "no_audio"
    /\ VideoLines # <<>>
    /\ AudioLines = <<>>

-----------------------------------------------------------------------------
(* Subtitles.adjust() on a file without captions, under SpecAdjust *)

\* C20: on a caption file without lines adjust() runs to its end, whatever
\* the marks: it returns at once or writes a file without lines.  (The file
\* changes only when adjust() writes it, and a file that had lines is written
\* with lines, so srt = <<>> says the file adjust() was given had none.)
C20_EmptyTrackAccepted ==
    srt = <<>> =>
        /\ newsubs = <<>>
        /\ corrected = <<>>
        /\ apc \in {"idle", "loop", "returned", "written"}
        /\ apc = "idle" => ENABLED AdjustBegin
        /\ apc = "loop" => ENABLED AdjustWrite
        /\ apc = "returned" => marks = <<>>

C20_Witness ==
    /\ srt = <<>>
    /\ Len(marks) = MaxMarks
    /\ apc = "written"

-----------------------------------------------------------------------------
(* The two threshold tests and the clips of split(), under Spec *)

\* pos of split() when it comes to the k-th cut (to the tail for k past the
\* last cut): the end of the cut before.
PosAt(k) == IF k = 1 THEN 0 ELSE cutlist[k - 1][2]

Clips == {extracted[k].clip : k \in 1..Len(extracted)}

\* The cuts the for loop of split() has passed.
Passed == 1..(cut_i - 1)

\* C25: the piece before a cut is extracted iff the cut starts after the
\* threshold and after pos; the rest after the last cut is extracted iff
\* pos < duration - threshold; so no clip ends at or before the threshold
\* and a trailing clip is longer than the threshold.
C25_EdgeTests ==
    /\ \A k \in Passed :
          (<<PosAt(k), cutlist[k][1]>> \in Clips) <=>
              (cutlist[k][1] > clip_thresh /\ cutlist[k][1] > PosAt(k))
    /\ pc = "split_done" =>
          ((<<PosAt(Len(cutlist) + 1), duration>> \in Clips) <=>
              (PosAt(Len(cutlist) + 1) < duration - clip_thresh))
    /\ (pc = "split_done" /\ <<PosAt(Len(cutlist) + 1), duration>> \in Clips) =>
          duration - PosAt(Len(cutlist) + 1) > clip_thresh
    /\ \A c \in Clips : c[2] > clip_thresh

C25_Witness ==
    /\ pc = "split_done"
    /\ Len(cutlist) = MaxCuts
    /\ clip_thresh > 0
    /\ cutlist[1][1] > 0
    /\ <<PosAt(1), cutlist[1][1]>> \notin Clips
    /\ <<PosAt(2), cutlist[2][1]>> \in Clips
    /\ <<PosAt(Len(cutlist) + 1), duration>> \in Clips

Overlap(a, b) == a[1] < b[2] /\ b[1] < a[2]

\* C29: the clips split() extracts from a sorted, disjoint cutlist inside
\* [0, duration] come in ascending order, have positive length, lie within
\* [0, duration], are pairwise disjoint and meet no cut; their segment
\* indices count up from 0.
C29_ClipsWellFormed ==
    (SortedDisjoint(cutlist) /\ Within(cutlist, duration) /\ clip_thresh >= 0) =>
        /\ \A k \in 1..Len(extracted) :
              /\ extracted[k].clip[1] < extracted[k].clip[2]
              /\ extracted[k].clip[1] >= 0
              /\ extracted[k].clip[2] <= duration
              /\ extracted[k].seg = k - 1
              /\ \A j \in 1..Len(cutlist) :
                    /\ ~Overlap(extracted[k].clip, cutlist[j])
                    /\ extracted[k].clip[1] < cutlist[j][1] =>
                           extracted[k].clip[2] <= cutlist[j][1]
        /\ \A k \in 1..(Len(extracted) - 1) :
              extracted[k].clip[2] <= extracted[k + 1].clip[1]

C29_Witness ==
    /\ pc = "split_done"
    /\ Len(extracted) = MaxCuts + 1
    /\ clip_thresh > 0

-----------------------------------------------------------------------------
(* The order of the captions adjust() writes, under SpecAdjust *)

\* The captions read so far are in order and do not overlap.
OrderedInput ==
    \A k \in 1..Len(corrected) :
        /\ corrected[k].rawStart <= corrected[k].rawEnd
        /\ k > 1 => corrected[k].rawStart >= corrected[k - 1].rawEnd

\* A timestamp as written, in milliseconds: the seconds and the digits after
\* the comma.
WrittenMs(ts) == (ts.h * 3600 + ts.m * 60 + ts.s) * 1000 + ts.frac

\* The timing line adjust() wrote for the k-th caption.
Written(k) == newsubs[corrected[k].line]

\* C28: captions that are in order and do not overlap stay so: each caption
\* written has start <= end and starts no earlier than the one before ends,
\* in the values computed and in the timestamps written; the delay is never
\* positive and never grows.
C28_OrderKept ==
    OrderedInput =>
        \A k \in 1..Len(corrected) :
            /\ corrected[k].start <= corrected[k].end
            /\ WrittenMs(Written(k).start) <= WrittenMs(Written(k).end)
            /\ corrected[k].delay1 <= 0
            /\ corrected[k].delay1 <= corrected[k].delay0
            /\ k > 1 =>
                  /\ corrected[k].start >= corrected[k - 1].end
                  /\ WrittenMs(Written(k).start) >= WrittenMs(Written(k - 1).end)

C28_Witness ==
    /\ apc = "written"
    /\ Len(corrected) = MaxCaps
    /\ OrderedInput
    /\ corrected[1].clipped
    /\ corrected[2].delay0 < 0
    /\ corrected[2].rawStart = corrected[1].rawEnd

-----------------------------------------------------------------------------
(* Transcoder.clean_split *)

\* Files that may lie in the working directory before the run.
StrayFiles == {{}, {<<"t">>}}

\* _clean(filename): os.remove(filename), nothing when there is no such file.
_clean(filename, fs0) == fs0 \ {filename}

\* for split in self._split: _clean(split), from the k-th element on.  An
\* element of the list is what `self._split += split` put there: one
\* character of a clip's name.
RECURSIVE CleanFrom(_, _)
CleanFrom(k, fs0) ==
    IF k > Len(_split) THEN fs0
    ELSE CleanFrom(k + 1, _clean(<<_split[k]>>, fs0))

\* clean_split(), called when split() has run to its end.
CleanSplit ==
    /\ pc = "split_done"
    /\ main = "idle"
    /\ main' = "cleaned"
    /\ files' = CleanFrom(1, files)
    /\ calls' = Append(calls, "clean_split")
    /\ UNCHANGED <<splitVars, marks, adjustVars, runVars, streamVars, subsVars,
                   _split, cmds, demux_files, markup, mk_i, locator>>

InitClean ==
    /\ \E in \in SplitInputs :
         /\ cutlist = in.cutlist
         /\ duration = in.duration
         /\ clip_thresh = in.clip_thresh
    /\ pc = "split"
    /\ cut_i = 1
    /\ pos = 0
    /\ elapsed = 0
    /\ seg = 0
    /\ chapters = <<>>
    /\ extracted = <<>>
    /\ marks = <<>>
    /\ srt = <<>>
    /\ AdjustIdle
    /\ RunIdle
    /\ StreamsIdle
    /\ enabled = TRUE
    /\ srt_there = FALSE
    /\ _split = <<>>
    /\ files \in StrayFiles
    /\ RestIdle

NextClean == SplitCut \/ SplitTail \/ CleanSplit

SpecClean == InitClean /\ [][NextClean]_vars

\* The files _extract created.
ClipFiles == {SplitName(extracted[k].seg) : k \in 1..Len(extracted)}

\* C26: clean_split() removes every clip file _extract created and no other
\* file.
C26_CleanRemovesClips ==
    [][(main = "idle" /\ main' = "cleaned") => files' = files \ ClipFiles]_vars

-----------------------------------------------------------------------------
(* MythSource._frame_to_timecode and MythSource._cut_list *)

\* A line of ffmpeg's output: one the pattern of _frame_to_timecode matches,
\* with the groups hh, mm and ss.cc (cs is ss.cc in hundredths), or another.
ProgressLine(h, m, cs) == [match |-> TRUE, h |-> h, m |-> m, cs |-> cs]
OtherLine == [match |-> FALSE, h |-> 0, m |-> 0, cs |-> 0]

\* time = 3600 * int(group 1) + 60 * int(group 2); time += float(group 3)
LineTime(line) ==
    (3600 * line.h + 60 * line.m) * TicksPerSec + line.cs * (TicksPerSec \div 100)

\* The loop of _frame_to_timecode over the lines from the k-th on, time being
\* the value so far: every matching line sets time anew.
RECURSIVE TimeFrom(_, _, _)
TimeFrom(out, k, time) ==
    IF k > Len(out) THEN time
    ELSE TimeFrom(out, k + 1, IF out[k].match THEN LineTime(out[k]) ELSE time)

\* _frame_to_timecode(frame), ffmpeg printing the lines out: time = 0, the
\* loop, return time.
_frame_to_timecode(out) == TimeFrom(out, 1, 0)

\* What ffmpeg may print: nothing, no progress line, progress lines.
Outputs ==
    {<<>>,
     <<OtherLine>>,
     <<OtherLine, ProgressLine(0, 0, 200)>>,
     <<ProgressLine(0, 0, 200), ProgressLine(0, 0, 450), OtherLine>>,
     <<ProgressLine(0, 1, 1025)>>}

Markups == UNION {[1..n -> Outputs \X Outputs] : n \in 0..MaxCuts}

\* One iteration of the loop of _cut_list().
CutListStep ==
    /\ pc = "cut_list"
    /\ mk_i <= Len(markup)
    /\ cutlist' = Append(cutlist, <<_frame_to_timecode(markup[mk_i][1]),
                                    _frame_to_timecode(markup[mk_i][2])>>)
    /\ mk_i' = mk_i + 1
    /\ UNCHANGED <<duration, clip_thresh, pc, cut_i, pos, elapsed, seg, chapters,
                   extracted, marks, adjustVars, runVars, streamVars, subsVars,
                   cleanVars, main, calls, cmds, demux_files, markup, locator>>

\* The loop of _cut_list() ends: the cutlist is built.
CutListEnd ==
    /\ pc = "cut_list"
    /\ mk_i > Len(markup)
    /\ pc' = "cut_list_done"
    /\ UNCHANGED <<cutlist, duration, clip_thresh, cut_i, pos, elapsed, seg,
                   chapters, extracted, marks, adjustVars, runVars, streamVars,
                   subsVars, cleanVars, restVars>>

InitCutList ==
    /\ cutlist = <<>>
    /\ duration = 0
    /\ clip_thresh = 0
    /\ pc = "cut_list"
    /\ cut_i = 1
    /\ pos = 0
    /\ elapsed = 0
    /\ seg = 0
    /\ chapters = <<>>
    /\ extracted = <<>>
    /\ marks = <<>>
    /\ srt = <<>>
    /\ AdjustIdle
    /\ RunIdle
    /\ StreamsIdle
    /\ enabled = TRUE
    /\ srt_there = FALSE
    /\ CleanIdle
    /\ main = "idle"
    /\ calls = <<>>
    /\ cmds = <<>>
    /\ demux_files = {}
    /\ markup \in Markups
    /\ mk_i = 1
    /\ locator = NoLocator

NextCutList == CutListStep \/ CutListEnd

SpecCutList == InitCutList /\ [][NextCutList]_vars

\* ffmpeg printed a progress line: the measurement has a reading.
HasReading(out) == \E k \in 1..Len(out) : out[k].match

\* C22: a measurement without a reading is fatal: _cut_list() does not go on
\* to put a cut into the cutlist whose start or end was not measured.
C22_NoReadingIsFatal ==
    \A k \in 1..Len(cutlist) :
        HasReading(markup[k][1]) /\ HasReading(markup[k][2])

-----------------------------------------------------------------------------
(* The frame/byte-offset strategy of the segment locator.  transcode.py      *)
(* keeps only Transcoder._frames = 0 and Transcoder._extra = 0 of it; the    *)
(* conversion is taken from section 4.3 of the specification.                *)

\* A slip: the quotient frame / totalFrames taken first, in whole numbers.
ByteOffset_QuotientFirst(measuredBytes, extraBytes, frame, totalFrames) ==
    measuredBytes + extraBytes * (frame \div totalFrames)

\* byteOffset = measuredBytes + extraBytes * (frame / totalFrames), in whole
\* bytes.
ByteOffset(measuredBytes, extraBytes, frame, totalFrames) ==
    measuredBytes + (extraBytes * frame) \div totalFrames

\* What the calibration pass measured for the file, and the requests.
TotalFrames == {1000, 30}
ExtraBytes == {0, 7, 2000}
MeasuredBytes == {0, 188, 4096, 100000}
Frames == {0, 1, 15, 500, 1000}

\* A frame number is resolved to a byte offset.
Locate ==
    /\ locator.state = "asked"
    /\ locator' = [locator EXCEPT
                      !.state = "resolved",
                      !.byteOffset = ByteOffset(locator.measuredBytes,
                                                locator.extraBytes,
                                                locator.frame,
                                                locator.totalFrames)]
    /\ UNCHANGED <<splitVars, marks, adjustVars, runVars, streamVars, subsVars,
                   cleanVars, main, calls, cmds, demux_files, markup, mk_i>>

InitLocate ==
    /\ cutlist = <<>>
    /\ duration = 0
    /\ clip_thresh = 0
    /\ pc = "locate"
    /\ cut_i = 1
    /\ pos = 0
    /\ elapsed = 0
    /\ seg = 0
    /\ chapters = <<>>
    /\ extracted = <<>>
    /\ marks = <<>>
    /\ srt = <<>>
    /\ AdjustIdle
    /\ RunIdle
    /\ StreamsIdle
    /\ enabled = TRUE
    /\ srt_there = FALSE
    /\ CleanIdle
    /\ main = "idle"
    /\ calls = <<>>
    /\ cmds = <<>>
    /\ demux_files = {}
    /\ markup = <<>>
    /\ mk_i = 1
    /\ locator \in [state : {"asked"}, totalFrames : TotalFrames,
                    extraBytes : ExtraBytes, measuredBytes : MeasuredBytes,
                    frame : Frames,
                    byteOffset : {0}]
    /\ locator.frame <= locator.totalFrames

NextLocate == Locate

SpecLocate == InitLocate /\ [][NextLocate]_vars

\* C24: a frame resolves to measuredBytes plus the share frame / totalFrames
\* of extraBytes (to the byte); with 1000 frames and 2000 extra bytes frame
\* 500 resolves to measuredBytes + 1000.
C24_ProportionalOffset ==
    locator.state = "resolved" =>
        LET share == locator.byteOffset - locator.measuredBytes IN
        /\ share * locator.totalFrames <= locator.extraBytes * locator.frame
        /\ locator.extraBytes * locator.frame < (share + 1) * locator.totalFrames
        /\ (locator.totalFrames = 1000 /\ locator.extraBytes = 2000
               /\ locator.frame = 500) =>
              locator.byteOffset = locator.measuredBytes + 1000

C24_Witness ==
    /\ locator.state = "resolved"
    /\ locator.totalFrames = 1000
    /\ locator.extraBytes = 2000
    /\ locator.frame = 500
    /\ locator.measuredBytes > 0

-----------------------------------------------------------------------------
(* The program: t.split(), t.join(), t.demux(), t.encode_audio(),            *)
(* t.encode_video(), t.remux(), for an MP4Transcoder or MKVTranscoder.  An   *)
(* exception is caught nowhere: it ends the program.                         *)

\* The return code ccextractor is allowed besides 0.
ExpectedCc == 232

\* The return codes a command of the program is taken to end with.
PipeRets == {0, 1, ExpectedCc}

\* The inputs of the program's runs: a source of 12 s with at most one cut.
PipeInputs == {in \in SplitInputs : in.duration = Sec(12) /\ Len(in.cutlist) <= 1}

\* The caption files ccextractor may write for the joined video.
PipeSrts == {f \in SrtFiles : Len(f) <= 2 /\ \A k \in 1..Len(f) : f[k].eol = "\n"}

\* What ffmpeg may print for the joined video: at most one stream of a kind.
PipeProbes ==
    {p \in Probes : Cardinality(PidsOf(p, "video")) <= 1
                    /\ Cardinality(PidsOf(p, "audio")) <= 1}

\* The files the log names.
FilesOf(lg) ==
    {lg[k].pid : k \in {i \in 1..Len(lg) : lg[i].kind \in {"vfile", "afile"}}}

\* split() raised: the exception ends the program.
SplitRaise ==
    /\ main = "split"
    /\ pc = "failed"
    /\ main' = "raised"
    /\ UNCHANGED <<splitVars, marks, adjustVars, runVars, streamVars, subsVars,
                   cleanVars, calls, cmds, demux_files, markup, mk_i, locator>>

\* join() up to the ffmpeg that joins the clips: the old caption file is
\* removed, every clip must exist, ffmpeg runs.
JoinConcat ==
    /\ main = "split"
    /\ pc = "split_done"
    /\ calls' = Append(calls, "join")
    /\ srt_there' = FALSE
    /\ IF \E n \in 0..(seg - 1) : SplitName(n) \notin files
       THEN main' = "raised" /\ UNCHANGED cmds
       ELSE \E ret \in PipeRets :
              /\ cmds' = Append(cmds, [cmd |-> "join", ret |-> ret])
              /\ main' = IF _cmd(ret, 0) THEN "join_extract" ELSE "raised"
    /\ UNCHANGED <<splitVars, marks, adjustVars, runVars, streamVars, enabled,
                   cleanVars, demux_files, markup, mk_i, locator>>

\* self.subtitles.extract(self._join): nothing when captions are disabled,
\* else ccextractor writes the caption file; adjust() is called next.
SubsExtract ==
    /\ main = "join_extract"
    /\ calls' = Append(calls, "extract")
    /\ IF ~enabled
       THEN /\ main' = "join_adjust"
            /\ apc' = "idle"
            /\ UNCHANGED <<cmds, srt, srt_there>>
       ELSE \E ret \in PipeRets :
              /\ cmds' = Append(cmds, [cmd |-> "extract", ret |-> ret])
              /\ IF _cmd(ret, ExpectedCc)
                 THEN /\ main' = "join_adjust"
                      /\ apc' = "idle"
                      /\ srt' \in PipeSrts
                      /\ srt_there' = TRUE
                 ELSE /\ main' = "raised"
                      /\ UNCHANGED <<apc, srt, srt_there>>
    /\ UNCHANGED <<splitVars, marks, line_i, delay, curr, newsubs, corrected,
                   runVars, streamVars, enabled, cleanVars, demux_files, markup,
                   mk_i, locator>>

\* A slip: join() goes on without adjust() having run to its end.
JoinReturn_NoWait ==
    /\ main = "join_adjust"
    /\ main' = "demux"
    /\ UNCHANGED <<splitVars, marks, adjustVars, runVars, streamVars, subsVars,
                   cleanVars, calls, cmds, demux_files, markup, mk_i, locator>>

\* adjust() returned, so join() returns.
JoinReturn ==
    /\ main = "join_adjust"
    /\ apc \in {"returned", "written"}
    /\ main' = "demux"
    /\ UNCHANGED <<splitVars, marks, adjustVars, runVars, streamVars, subsVars,
                   cleanVars, calls, cmds, demux_files, markup, mk_i, locator>>

\* adjust() raised: the exception ends the program.
JoinRaise ==
    /\ main = "join_adjust"
    /\ apc = "ioerror"
    /\ main' = "raised"
    /\ UNCHANGED <<splitVars, marks, adjustVars, runVars, streamVars, subsVars,
                   cleanVars, calls, cmds, demux_files, markup, mk_i, locator>>

\* demux() up to the call of _find_demux(): Project-X runs, and writes the
\* files its log names.
DemuxCmd ==
    /\ main = "demux"
    /\ calls' = Append(calls, "demux")
    /\ \E ret \in PipeRets :
          /\ cmds' = Append(cmds, [cmd |-> "demux", ret |-> ret])
          /\ IF _cmd(ret, 0)
             THEN /\ main' = "find_demux"
                  /\ spc' = "probe"
                  /\ probe' \in PipeProbes
                  /\ log' \in LogsOf(probe')
                  /\ demux_files' = FilesOf(log')
             ELSE /\ main' = "raised"
                  /\ UNCHANGED <<spc, probe, log, demux_files>>
    /\ UNCHANGED <<splitVars, marks, adjustVars, runVars, subsVars, cleanVars,
                   language, probe_i, fs, vstreams, astreams, log_i, fd,
                   _demux_v, _demux_a, markup, mk_i, locator>>

\* not (self._demux_v is None or not os.path.exists(self._demux_v))
Located(file) == file # NoFile /\ file \in demux_files

\* The rest of demux() when _find_demux() has ended: its exception ends the
\* program, and so does a stream file that is not there.
DemuxCheck ==
    /\ main = "find_demux"
    /\ spc \in {"no_video", "no_audio", "index_error", "demuxed"}
    /\ main' = IF spc = "demuxed" /\ Located(_demux_v) /\ Located(_demux_a)
               THEN "encode_audio"
               ELSE "raised"
    /\ UNCHANGED <<splitVars, marks, adjustVars, runVars, streamVars, subsVars,
                   cleanVars, calls, cmds, demux_files, markup, mk_i, locator>>

\* A step of the program that runs one command: encode_audio() (ffmpeg),
\* encode_video() (ffmpeg, one pass), remux() (mkvmerge).
RunStep(at, then) ==
    /\ main = at
    /\ calls' = Append(calls, at)
    /\ \E ret \in PipeRets :
          /\ cmds' = Append(cmds, [cmd |-> at, ret |-> ret])
          /\ main' = IF _cmd(ret, 0) THEN then ELSE "raised"
    /\ UNCHANGED <<splitVars, marks, adjustVars, runVars, streamVars, subsVars,
                   cleanVars, demux_files, markup, mk_i, locator>>

EncodeAudio == RunStep("encode_audio", "encode_video")

EncodeVideo == RunStep("encode_video", "remux")

Remux == RunStep("remux", "done")

InitPipe ==
    /\ \E in \in PipeInputs :
         /\ cutlist = in.cutlist
         /\ duration = in.duration
         /\ clip_thresh = in.clip_thresh
    /\ pc = "split"
    /\ cut_i = 1
    /\ pos = 0
    /\ elapsed = 0
    /\ seg = 0
    /\ chapters = <<>>
    /\ extracted = <<>>
    /\ marks = <<>>
    /\ srt = <<>>
    /\ apc = "waiting"
    /\ line_i = 1
    /\ delay = 0
    /\ curr = 0
    /\ newsubs = <<>>
    /\ corrected = <<>>
    /\ RunIdle
    /\ StreamsIdle
    /\ enabled \in BOOLEAN
    /\ srt_there \in BOOLEAN
    /\ CleanIdle
    /\ main = "split"
    /\ calls = <<"split">>
    /\ cmds = <<>>
    /\ demux_files = {}
    /\ markup = <<>>
    /\ mk_i = 1
    /\ locator = NoLocator

NextPipe ==
    \/ SplitCut \/ SplitTail \/ SplitRaise
    \/ JoinConcat \/ SubsExtract
    \/ AdjustBegin \/ AdjustLine \/ AdjustWrite
    \/ JoinReturn \/ JoinRaise
    \/ DemuxCmd
    \/ FindStreamsLine \/ FindStreamsEnd \/ FindDemuxLine \/ FindDemuxEnd
    \/ DemuxCheck
    \/ EncodeAudio \/ EncodeVideo \/ Remux

SpecPipe == InitPipe /\ [][NextPipe]_vars

-----------------------------------------------------------------------------
(* Claims about the program's order and its failures, under SpecPipe *)

Called(name) == {k \in 1..Len(calls) : calls[k] = name}

\* The command cmd has run and ended with a return code _cmd accepts.
Succeeded(cmd, expected) ==
    \E k \in 1..Len(cmds) :
        cmds[k].cmd = cmd /\ (cmds[k].ret = 0 \/ cmds[k].ret = expected)

AdjustDone == apc \in {"returned", "written"}

AfterJoin == {"demux", "find_demux", "encode_audio", "encode_video", "remux", "done"}

\* C21: adjust() is called at most once in a run, and once in a run that gets
\* past join(); it is called only when split() has extracted every clip and
\* recorded every mark, ffmpeg has joined the clips and extract() has run
\* (and written the caption file when captions are enabled); the encoders and
\* remux() are called only after adjust() has returned.
C21_ResyncOrder ==
    /\ Cardinality(Called("adjust")) <= 1
    /\ main \in AfterJoin => Cardinality(Called("adjust")) = 1 /\ AdjustDone
    /\ Called("adjust") # {} =>
          /\ SubSeq(calls, 1, 4) = <<"split", "join", "extract", "adjust">>
          /\ pc = "split_done"
          /\ Len(marks) = Len(extracted)
          /\ Len(extracted) = seg
          /\ Succeeded("join", 0)
          /\ enabled => Succeeded("extract", ExpectedCc) /\ srt_there
    /\ \A name \in {"demux", "encode_audio", "encode_video", "remux"} :
          \A k \in Called(name) :
              /\ AdjustDone
              /\ \E j \in Called("adjust") : j < k

C21_Witness ==
    /\ main = "done"
    /\ apc = "written"
    /\ Len(extracted) > 1
    /\ Len(corrected) = 1
    /\ corrected[1].clipped

\* The entry of cmds is a failure: a return code that is neither 0 nor the
\* one expected of the command.
Failure(c) == c.ret # 0 /\ ~(c.cmd = "extract" /\ c.ret = ExpectedCc)

\* C23: a command that ends with an unexpected return code is not run again,
\* the program ends with the exception, and no later step runs: the failed
\* command is the last one run and its method the last one called.  A failed
\* ffmpeg of split() is the last thing split() did.
C23_FailurePropagates ==
    /\ \A k \in 1..Len(cmds) :
          /\ \A j \in 1..Len(cmds) : cmds[j].cmd = cmds[k].cmd => j = k
          /\ Failure(cmds[k]) =>
                /\ k = Len(cmds)
                /\ main = "raised"
                /\ calls[Len(calls)] = cmds[k].cmd
    /\ pc = "failed" =>
          /\ main \in {"split", "raised"}
          /\ calls = <<"split">>
          /\ cmds = <<>>
          /\ apc = "waiting"
          /\ spc = "idle"
          /\ Len(chapters) = Len(extracted) + 1
          /\ chapters[Len(chapters)].seg = seg
          /\ Len(marks) = Len(extracted)

C23_Witness ==
    /\ main = "raised"
    /\ Len(cmds) = 3
    /\ cmds[3] = [cmd |-> "demux", ret |-> ExpectedCc]
    /\ cmds[2] = [cmd |-> "extract", ret |-> ExpectedCc]

\* C27: with captions disabled and a clip extracted, the caption steps of
\* join() are passed over without an error.
C27_DisabledSkipsCaptions ==
    (~enabled /\ Len(extracted) >= 1 /\ Succeeded("join", 0)) =>
        /\ apc # "ioerror"
        /\ main = "raised" => \E k \in 1..Len(cmds) : Failure(cmds[k])

-----------------------------------------------------------------------------
(* demux() on logs that leave streams out *)

\* What Project-X made of a stream: it did not see it; it saw it and lists no
\* file for it; it lists a file without a name; it lists a file that is not
\* there; it lists the file it wrote.
Fates == {"unseen", "nofile", "noname", "missing", "written"}

Seen(o, fate) == SelectSeq(o, LAMBDA q : fate[q] # "unseen")

Listed(o, fate) == SelectSeq(o, LAMBDA q : fate[q] \in {"noname", "missing", "written"})

FileLines(o, fate, kind) ==
    [k \in 1..Len(Listed(o, fate)) |->
        [kind |-> kind,
         pid |-> IF fate[Listed(o, fate)[k]] = "noname" THEN NoFile
                 ELSE Listed(o, fate)[k]]]

\* The log for the streams in the orders vo and ao with the fates fate: the
\* PID lines of the streams seen, then the lines of the files listed.
FatedLog(vo, ao, fate) ==
    [k \in 1..Len(Seen(vo, fate)) |-> [kind |-> "vpid", pid |-> Seen(vo, fate)[k]]] \o
    [k \in 1..Len(Seen(ao, fate)) |-> [kind |-> "apid", pid |-> Seen(ao, fate)[k]]] \o
    FileLines(vo, fate, "vfile") \o
    FileLines(ao, fate, "afile")

\* Probes with video streams and one audio stream.
DemuxProbes ==
    {p \in Probes : PidsOf(p, "video") # {} /\ PidsOf(p, "audio") = {3}}

InitDemux ==
    /\ cutlist = <<>>
    /\ duration = 0
    /\ clip_thresh = 0
    /\ pc = "joined"
    /\ cut_i = 1
    /\ pos = 0
    /\ elapsed = 0
    /\ seg = 0
    /\ chapters = <<>>
    /\ extracted = <<>>
    /\ marks = <<>>
    /\ srt = <<>>
    /\ apc = "returned"
    /\ line_i = 1
    /\ delay = 0
    /\ curr = 0
    /\ newsubs = <<>>
    /\ corrected = <<>>
    /\ RunIdle
    /\ enabled = TRUE
    /\ srt_there = FALSE
    /\ CleanIdle
    /\ main = "find_demux"
    /\ calls = <<"split", "join", "extract", "adjust", "demux">>
    /\ cmds = <<>>
    /\ markup = <<>>
    /\ mk_i = 1
    /\ locator = NoLocator
    /\ probe \in DemuxProbes
    /\ language = "en"
    /\ \E vo \in DistinctSeqs(VideoPids), ao \in DistinctSeqs(AudioPids),
          fate \in [VideoPids \cup AudioPids -> Fates] :
          /\ {vo[k] : k \in 1..Len(vo)} = PidsOf(probe, "video")
          /\ {ao[k] : k \in 1..Len(ao)} = PidsOf(probe, "audio")
          /\ \A q \in (VideoPids \cup AudioPids)
                        \ (PidsOf(probe, "video") \cup PidsOf(probe, "audio")) :
                fate[q] = "unseen"
          /\ log = FatedLog(vo, ao, fate)
          /\ demux_files = {q \in VideoPids \cup AudioPids : fate[q] = "written"}
    /\ spc = "probe"
    /\ probe_i = 1
    /\ fs = [vstreams |-> <<>>, astreams |-> <<>>]
    /\ vstreams = <<>>
    /\ astreams = <<>>
    /\ log_i = 1
    /\ fd = FdStart
    /\ _demux_v = NoFile
    /\ _demux_a = NoFile

NextDemux ==
    \/ FindStreamsLine \/ FindStreamsEnd \/ FindDemuxLine \/ FindDemuxEnd
    \/ DemuxCheck
    \/ EncodeAudio \/ EncodeVideo

SpecDemux == InitDemux /\ [][NextDemux]_vars

\* The file the log lists n-th among the files of the kind.
NthFile(kind, n) ==
    LET lines == SelectSeq(log, LAMBDA l : l.kind = kind)
    IN  IF n \in 1..Len(lines) THEN lines[n].pid ELSE NoFile

\* The places among the PID lines of the kind that name an enabled stream.
SelectedPlaces(kind, streams) ==
    LET lines == SelectSeq(log, LAMBDA l : l.kind = kind)
    IN  {n \in 1..Len(lines) : lines[n].pid \in EnabledPids(streams)}

\* C30: the encoders run only when demux() found, for a selected video stream
\* and a selected audio stream, the file written for that stream: a stream
\* that is not selected, not in the log or without a file is never handed
\* on; the files chosen are those the log lists at the place of a selected
\* PID.
C30_OnlySelectedStreams ==
    (main \in {"encode_audio", "encode_video", "remux", "done"}
         \/ Called("encode_audio") # {} \/ Called("encode_video") # {}) =>
        /\ _demux_v \in EnabledPids(vstreams) \cap demux_files
        /\ _demux_a \in EnabledPids(astreams) \cap demux_files
        /\ \E n \in SelectedPlaces("vpid", vstreams) : _demux_v = NthFile("vfile", n)
        /\ \E n \in SelectedPlaces("apid", astreams) : _demux_a = NthFile("afile", n)

====
